---- MODULE Spec2Model ----
(***************************************************************************)
(* The card registry core of opsml: register_card / update_card on one     *)
(* registry table, the version resolution behind them, the artifact saves  *)
(* and the record store.  Several clients call the registry concurrently   *)
(* (over HTTP each call of a client is a sequence of requests: check_uid,  *)
(* version, the artifact uploads, create), so a call is modelled step by   *)
(* step and the steps of different clients interleave.                     *)
(***************************************************************************)
EXTENDS Integers, Sequences, FiniteSets, TLC

\* ------------------------------------------------------------------ bounds
NumProcs == 2
MaxCalls == 3
MaxUid == 3
MaxNum == 1
MaxInitRecords == 2
MaxListRecords == 3
MaxRows == 3
MaxChunks == 3

\* --------------------------------------------------------------- universes
Procs == 1..NumProcs
Names == {"m"}
Teams == {"t", "s"}
None == "None"

\* VersionType (registry_base.py 39-42)
VersionType == {"major", "minor", "patch"}

\* --------------------------------------------------- strings as characters
\* Names of tables and card classes are sequences of characters, so that
\* split('_') and lower() are computed and not assumed.
RECURSIVE SplitFrom(_, _, _)
SplitFrom(s, i, cur) ==
    IF i > Len(s) THEN <<cur>>
    ELSE IF s[i] = "_" THEN <<cur>> \o SplitFrom(s, i + 1, <<>>)
    ELSE SplitFrom(s, i + 1, Append(cur, s[i]))

\* str.split('_')
Split(s) == SplitFrom(s, 1, <<>>)

UpperChars == <<"A","B","C","D","E","F","G","H","I","J","K","L","M","N","O","P","Q","R","S","T","U","V","W","X","Y","Z">>
LowerChars == <<"a","b","c","d","e","f","g","h","i","j","k","l","m","n","o","p","q","r","s","t","u","v","w","x","y","z">>

LowerChar(c) ==
    IF \E i \in 1..Len(UpperChars) : UpperChars[i] = c
    THEN LowerChars[CHOOSE i \in 1..Len(UpperChars) : UpperChars[i] = c]
    ELSE c

\* str.lower()
Lower(s) == [i \in 1..Len(s) |-> LowerChar(s[i])]

\* RegistryTableNames: the values of the table-name enum
DATA == <<"O","P","S","M","L","_","D","A","T","A","_","R","E","G","I","S","T","R","Y">>
MODEL == <<"O","P","S","M","L","_","M","O","D","E","L","_","R","E","G","I","S","T","R","Y">>
RUN == <<"O","P","S","M","L","_","R","U","N","_","R","E","G","I","S","T","R","Y">>
PIPELINE == <<"O","P","S","M","L","_","P","I","P","E","L","I","N","E","_","R","E","G","I","S","T","R","Y">>

\* table_name_card_map keys (registry_base.py 47-52)
RegistryTableNames == {DATA, MODEL, RUN, PIPELINE}

\* card.__class__.__name__ of the card variants of cards.py
DataCard == <<"D","a","t","a","C","a","r","d">>
ModelCard == <<"M","o","d","e","l","C","a","r","d">>
RunCard == <<"R","u","n","C","a","r","d">>
PipelineCard == <<"P","i","p","e","l","i","n","e","C","a","r","d">>
ProjectCard == <<"P","r","o","j","e","c","t","C","a","r","d">>

CardClasses == {DataCard, ModelCard, RunCard, PipelineCard, ProjectCard}

\* SQLRegistryBase.__init__: supported_card = f"{table_name.split('_')[1]}Card"
supported_card(table_name) == Split(table_name)[2] \o <<"C","a","r","d">>

\* SQLRegistryBase._is_correct_card_type
\* (variant: every class is accepted)
MutIsCorrectCardTypeAlways(table_name, cls) == TRUE

_is_correct_card_type(table_name, cls) ==
    Lower(supported_card(table_name)) = Lower(cls)

\* ---------------------------------------------------------------- versions
\* A semantic version is <<major, minor, patch, rc>>: rc = 0 is a final
\* release, rc = k > 0 the release candidate "-rc.k" of that release.
V100 == <<1, 0, 0, 0>>

\* The versions the initial histories of SpecVersion are drawn from.
VersionUniverse == (1..(1 + MaxNum)) \X (0..MaxNum) \X (0..MaxNum) \X (0..1)

\* semver.VersionInfo comparison (used by sort_semvers): numeric precedence
\* on the triple; on equal triples a pre-release is below the final release.
SemverLess(a, b) ==
    \/ a[1] < b[1]
    \/ a[1] = b[1] /\ a[2] < b[2]
    \/ a[1] = b[1] /\ a[2] = b[2] /\ a[3] < b[3]
    \/ a[1] = b[1] /\ a[2] = b[2] /\ a[3] = b[3]
         /\ a[4] # b[4] /\ a[4] # 0 /\ (b[4] = 0 \/ a[4] < b[4])

\* Insert v in a list sorted highest first.
RECURSIVE InsertDesc(_, _)
InsertDesc(v, sorted) ==
    IF sorted = <<>> THEN <<v>>
    ELSE IF SemverLess(Head(sorted), v) THEN <<v>> \o sorted
    ELSE <<Head(sorted)>> \o InsertDesc(v, Tail(sorted))

\* sort_semvers: the versions sorted by semver precedence, highest first.
RECURSIVE sort_semvers(_)
sort_semvers(versions) ==
    IF versions = <<>> THEN <<>>
    ELSE InsertDesc(Head(versions), sort_semvers(Tail(versions)))

\* SQLRegistryBase._increment_version: VersionInfo.parse(version), then
\* bump_major / bump_minor / bump_patch, which drop the pre-release tag.
_increment_version(version, version_type) ==
    IF version_type = "major" THEN <<version[1] + 1, 0, 0, 0>>
    ELSE IF version_type = "minor" THEN <<version[1], version[2] + 1, 0, 0>>
    ELSE <<version[1], version[2], version[3] + 1, 0>>

\* ------------------------------------------------------------ record store
\* engine.get_versions(table, name): the rows of the table with that name.
\* The order of the result is the database's.
get_versions(st, name) ==
    {i \in 1..Len(st) : st[i].name = name}

\* ServerRegistry._get_versions_from_db: what it raises or returns, given
\* the row the database returned first.
OwnershipConflictAt(st, first, team) == st[first].team # team

\* versions = [result.version for result in results], sorted.
VersionsOf(st, rows) ==
    LET RECURSIVE Collect(_)
        Collect(i) == IF i > Len(st) THEN <<>>
                      ELSE IF i \in rows THEN <<st[i].version>> \o Collect(i + 1)
                      ELSE Collect(i + 1)
    IN sort_semvers(Collect(1))

\* ServerRegistry.set_version, after the lookup: bump the first (highest)
\* version, or "1.0.0" when the lookup is empty.
\* (variants: bump the last version of the list; bump 0.0.0 on an empty lookup)
MutSetVersionLast(versions, version_type) ==
    IF versions # <<>>
    THEN _increment_version(versions[Len(versions)], version_type)
    ELSE V100

MutSetVersionBumpBase(versions, version_type) ==
    IF versions # <<>>
    THEN _increment_version(versions[1], version_type)
    ELSE _increment_version(<<0, 0, 0, 0>>, version_type)

set_version(versions, version_type) ==
    IF versions # <<>>
    THEN _increment_version(versions[1], version_type)
    ELSE V100

\* ServerRegistry.check_uid: is there a row with this uid.
check_uid(st, uid) == \E i \in 1..Len(st) : st[i].uid = uid

\* ------------------------------------------------------------------- state
VARIABLES
    table,         \* the registry's table_name (fixed at construction)
    store,         \* the rows of the table, in insertion order
    blobs,         \* the storage backend: the blobs written, [dir, file]
    storage_spec,  \* storage_client.storage_spec.save_path (one shared client)
    nextUid,       \* the uids handed out so far (uuid4: never repeated)
    calls,         \* number of registry calls started
    card,          \* card[p]: the card object client p holds
    call,          \* call[p]: the registry call p is in: method, step, arguments
    status,        \* status[p]: idle, running, returned or raised
    err,           \* err[p]: what the last call of p raised
    listing,       \* the last list_cards / load_card call: its arguments and result
    loader,        \* the card a CardLoader works on, and the storage calls it made
    saver,         \* a ModelCard, its sample input, and the run of its artifact saver
    upload         \* a request to the upload route: what was received, the response

vars == <<table, store, blobs, storage_spec, nextUid, calls, card, call, status, err,
          listing, loader, saver, upload>>

NoUid == 0
NoVersion == <<>>
NoSpec == <<>>
Custom == <<"custom">>

\* A card before any card was constructed by the client.
NoCard == [cls |-> <<>>, name |-> None, team |-> None, uid |-> NoUid, version |-> NoVersion,
           uris |-> {}]

\* ArtifactCard(name, team, ...): uid, version and the artifact URIs are
\* absent at construction; uris is the set of the card's URI slots that hold
\* a URI.
NewCard(cls, name, team) ==
    [cls |-> cls, name |-> name, team |-> team, uid |-> NoUid, version |-> NoVersion,
     uris |-> {}]

\* No call in progress (op stays that of the call that ended).
NoCall == [op |-> None, pc |-> 0, version_type |-> None, save_path |-> None, nsaved |-> 0]

\* card.create_registry_record(): the row written for a card.
create_registry_record(c) ==
    [uid |-> c.uid, name |-> c.name, team |-> c.team, version |-> c.version]

\* save_artifacts of each CardArtifactSaver: the artifacts written, in order.
save_artifacts(cls) ==
    IF cls = DataCard THEN <<"data", "profile", "profile_html", "datacard">>
    ELSE IF cls = ModelCard
    THEN <<"trained_model", "sample_data", "onnx_model", "model_metadata", "modelcard">>
    ELSE IF cls = RunCard THEN <<"artifacts", "runcard">>
    ELSE <<>>

\* The URI slots of a card class.
Slots(cls) == {save_artifacts(cls)[i] : i \in 1..Len(save_artifacts(cls))}

\* The writes one save_artifacts call issues for card c, in order.  The
\* DataCard saver writes the data, the profile and the card whenever the
\* payload is there; the ModelCard saver skips the model, sample data, onnx
\* and metadata writes when model_metadata_uri is set and writes the card;
\* the RunCard saver skips the artifacts that have a URI and writes the card.
SaverWrites(c) ==
    IF c.cls = ModelCard /\ "model_metadata" \in c.uris THEN <<"modelcard">>
    ELSE IF c.cls = RunCard /\ "artifacts" \in c.uris THEN <<"runcard">>
    ELSE save_artifacts(c.cls)

\* SQLRegistryBase._create_registry_record: the artifacts, then the row.
\* (variant: the row, then the artifacts)
MutCreateRegistryRecordRowFirst == <<"add_and_commit", "save_card_artifacts">>

_create_registry_record == <<"save_card_artifacts", "add_and_commit">>

\* SQLRegistryBase.register_card
\* (variant: the version is resolved before the card is validated)
MutRegisterCardVersionFirst ==
    <<"_set_card_uid_version", "_validate_card_type", "_set_artifact_storage_spec">>
    \o _create_registry_record

register_card ==
    <<"_validate_card_type", "_set_card_uid_version", "_set_artifact_storage_spec">>
    \o _create_registry_record

\* SQLRegistryBase.update_card
update_card == <<"save_card_artifacts", "update_card_record">>

Steps(o) == IF o = "register_card" THEN register_card ELSE update_card

CurStep(p) == IF status[p] = "running" THEN Steps(call[p].op)[call[p].pc] ELSE None

\* The record store's uniqueness constraint on (name, team, version).
\* (variant: a table without the constraint)
MutNoConstraint(st, rec) == FALSE

UniqueViolation(st, rec) ==
    \E i \in 1..Len(st) :
        /\ st[i].name = rec.name
        /\ st[i].team = rec.team
        /\ st[i].version = rec.version

\* ---------------------------------------------------------------- read path
\* The version argument of list_cards: absent, an exact version, "^major" or
\* "~major.minor".
NoVersionQuery == [symbol |-> None, version |-> <<>>]
Exact(v) == [symbol |-> "", version |-> v]
Caret(major) == [symbol |-> "^", version |-> <<major>>]
Tilde(major, minor) == [symbol |-> "~", version |-> <<major, minor>>]

\* Does a stored version match the version argument.
VersionMatches(v, q) ==
    IF q.symbol = None THEN TRUE
    ELSE IF q.symbol = "" THEN v = q.version
    ELSE IF q.symbol = "^" THEN v[1] = q.version[1]
    ELSE v[1] = q.version[1] /\ v[2] = q.version[2]

\* limit = None
NoLimit == -1

\* query.limit(limit): the first rows of the result, all of them without a
\* limit.
Limit(records, limit) ==
    IF limit = NoLimit \/ limit >= Len(records) THEN records
    ELSE SubSeq(records, 1, limit)

\* The rows the query for (uid, name, team, version) selects, in the table's
\* order, cut to the limit by the query itself; a uid takes precedence over
\* the other filters.
get_records_from_table(st, q) ==
    Limit(SelectSeq(st, LAMBDA r :
            IF q.uid # NoUid THEN r.uid = q.uid
            ELSE /\ q.name = None \/ r.name = q.name
                 /\ q.team = None \/ r.team = q.team
                 /\ VersionMatches(r.version, q.version)),
          q.limit)

\* SQLRegistryBase._sort_by_version: the versions are sorted, then for each
\* version in turn every record of that version is appended.
\* (variant: the records stay in the table's order)
MutSortByVersionNone(records) == records

_sort_by_version(records) ==
    LET versions == sort_semvers([i \in 1..Len(records) |-> records[i].version])
        RECURSIVE Collect(_)
        Collect(vs) ==
            IF vs = <<>> THEN <<>>
            ELSE SelectSeq(records, LAMBDA r : r.version = Head(vs)) \o Collect(Tail(vs))
    IN Collect(versions)

\* SemVerUtils.is_release_candidate
is_release_candidate(v) == v[4] # 0

NoReleaseCandidates(records) ==
    SelectSeq(records, LAMBDA r : ~is_release_candidate(r.version))

\* records[:n]
Take(records, n) == SubSeq(records, 1, IF n < Len(records) THEN n ELSE Len(records))

\* ServerRegistry.list_cards (sql/base/server.py); the limit goes to the query.
\* (variant: a range query returns every match)
MutListCardsNoTop(st, q) ==
    LET found == get_records_from_table(st, q)
        sorted == IF q.name # None THEN _sort_by_version(found) ELSE found
    IN IF q.ignore_release_candidates THEN NoReleaseCandidates(sorted) ELSE sorted

\* (variant: without a version argument release candidates are kept)
MutListCardsKeepRc(st, q) ==
    LET found == get_records_from_table(st, q)
        sorted == IF q.name # None THEN _sort_by_version(found) ELSE found
    IN IF q.version.symbol # None
       THEN LET records == IF q.ignore_release_candidates
                           THEN NoReleaseCandidates(sorted) ELSE sorted
            IN IF q.version.symbol \in {"^", "~"} THEN Take(records, 1) ELSE records
       ELSE sorted

list_cards(st, q) ==
    LET found == get_records_from_table(st, q)
        sorted == IF q.name # None THEN _sort_by_version(found) ELSE found
    IN IF q.version.symbol # None
       THEN LET records == IF q.ignore_release_candidates
                           THEN NoReleaseCandidates(sorted) ELSE sorted
            IN IF q.version.symbol \in {"^", "~"} THEN Take(records, 1) ELSE records
       ELSE IF q.ignore_release_candidates THEN NoReleaseCandidates(sorted)
       ELSE sorted

\* ServerRegistry.list_cards (sql/registry_base.py): every result is sorted,
\* then cut to the limit.
\* (variant: the limit is applied to the query, before the sort)
MutListCardsLimitFirst(st, q, limit) ==
    _sort_by_version(Take(get_records_from_table(st, q), limit))

\* (variant: the uid filter is ignored when a name is given)
MutListCardsIgnoreUid(st, q, limit) ==
    Take(_sort_by_version(get_records_from_table(st, [q EXCEPT !.uid = NoUid])), limit)

_get_sql_records(st, q, limit) ==
    LET sorted_records == _sort_by_version(get_records_from_table(st, q))
    IN IF q.version.symbol \in {"^", "~"} THEN Take(sorted_records, 1)
       ELSE Take(sorted_records, limit)

\* SQLRegistryBase.load_card: record = list_cards(..., limit=1); record[0]
\* raises IndexError on an empty list (the routes answer it with 404 "not
\* found").
\* (variant: an empty result loads an empty card)
MutLoadCardEmpty(record) ==
    IF record = <<>> THEN [outcome |-> "returned", records |-> <<>>]
    ELSE [outcome |-> "returned", records |-> <<record[1]>>]

load_card(record) ==
    IF record = <<>> THEN [outcome |-> "NotFoundError", records |-> <<>>]
    ELSE [outcome |-> "returned", records |-> <<record[1]>>]

NoQuery == [uid |-> NoUid, name |-> None, team |-> None, version |-> NoVersionQuery,
            ignore_release_candidates |-> FALSE, limit |-> NoLimit]
NoListing == [op |-> None, query |-> NoQuery, outcome |-> None, records |-> <<>>]

\* ---------------------------------------------------------------- loaders
\* A CardLoader's run: the in-memory fields of the card that are populated,
\* the storage calls made so far and how the method ended.
NoLoader == [cls |-> <<>>, fields |-> {}, method |-> None, ops |-> <<>>, outcome |-> None]

\* The card's uri, under which its blobs are stored.
LoaderUri == Custom

Stored(bl, file) == [dir |-> LoaderUri, file |-> file] \in bl

\* storage_client.exists(rpath)
Exists(r, file) == [r EXCEPT !.ops = Append(@, <<"exists", file>>)]

\* CardLoader.download, then interface.load_<field>(lpath): storage_client.get
\* fetches the blob and the interface sets the field; on a missing blob the
\* storage client raises.
Download(r, bl, file, field) ==
    IF r.outcome # "running" THEN r
    ELSE IF Stored(bl, file)
    THEN [r EXCEPT !.ops = Append(@, <<"get", file>>), !.fields = @ \cup {field}]
    ELSE [r EXCEPT !.ops = Append(@, <<"get", file>>), !.outcome = "FileNotFoundError"]

\* An optional artifact: existence is checked first, an absent blob is skipped.
\* (variant: the blob is downloaded without the check)
MutDownloadUnchecked(r, bl, file, field) ==
    IF r.outcome # "running" THEN r
    ELSE IF Stored(bl, file)
    THEN [r EXCEPT !.ops = Append(@, <<"get", file>>), !.fields = @ \cup {field}]
    ELSE [r EXCEPT !.ops = Append(@, <<"get", file>>), !.outcome = "FileNotFoundError"]

DownloadIfExists(r, bl, file, field) ==
    IF r.outcome # "running" THEN r
    ELSE IF Stored(bl, file) THEN Download(Exists(r, file), bl, file, field)
    ELSE Exists(r, file)

\* DataCardLoader.load_data
load_data(r, bl) ==
    IF "data" \in r.fields THEN r ELSE Download(r, bl, "data", "data")

\* DataCardLoader.load_data_profile
load_data_profile(r, bl) == DownloadIfExists(r, bl, "profile", "profile")

\* ModelCardLoader._load_model
_load_model(r, bl) ==
    IF "model" \in r.fields THEN r ELSE Download(r, bl, "trained_model", "model")

\* ModelCardLoader._load_preprocessor
_load_preprocessor(r, bl) == DownloadIfExists(r, bl, "preprocessor", "preprocessor")

\* ModelCardLoader._load_sample_data
_load_sample_data(r, bl) == DownloadIfExists(r, bl, "sample_data", "sample_data")

\* ModelCardLoader.load_model
load_model(r, bl) == _load_sample_data(_load_preprocessor(_load_model(r, bl), bl), bl)

\* ModelCardLoader.load_onnx_model
load_onnx_model(r, bl) ==
    IF "onnx_model" \in r.fields THEN r
    ELSE DownloadIfExists(r, bl, "onnx_model", "onnx_model")

\* A method returns unless a step of it raised.
Finish(r) == IF r.outcome = "running" THEN [r EXCEPT !.outcome = "returned"] ELSE r

\* A loader method starts on the card as the last one left it.
Start(method) == [loader EXCEPT !.method = method, !.ops = <<>>, !.outcome = "running"]

\* ---------------------------------------------------------------- ModelCard
\* A sample input: an array or a frame holds a sequence of rows, a
\* dictionary maps each key to an array.
NoSample == [data_type |-> None, data |-> [rows |-> <<>>]]
NoArtifact == [artifact_type |-> None, data |-> [rows |-> <<>>]]

\* input_data[0:1]
FirstRecord(rows) == IF rows = <<>> THEN <<>> ELSE <<rows[1]>>

\* ModelCard._get_one_sample (field validator of sample_input_data)
\* (variant: the sample input is kept whole)
MutGetOneSampleWhole(input_data) == input_data

_get_one_sample(input_data) ==
    IF input_data.data_type = None THEN input_data
    ELSE IF input_data.data_type # "dict"
    THEN [input_data EXCEPT !.data.rows = FirstRecord(@)]
    ELSE [input_data EXCEPT !.data = [key \in DOMAIN @ |-> FirstRecord(@[key])]]

\* ModelCardArtifactSaver._get_artifact_and_type: the artifact written for
\* the sample data and its storage type.
_get_artifact_and_type(sample_data) ==
    IF sample_data.data_type = "dict"
    THEN [artifact_type |-> "dict", data |-> sample_data.data]
    ELSE IF sample_data.data_type \in {"pyarrow", "pandas"}
    THEN [artifact_type |-> "pyarrow", data |-> sample_data.data]
    ELSE [artifact_type |-> "numpy", data |-> sample_data.data]

\* interface.load_sample_data: the stored artifact read back as the card's
\* data type.
load_sample_data(data_type, artifact) == [data_type |-> data_type, data |-> artifact.data]

HuggingFaceModel == "HuggingFaceModel"
SklearnModel == "SklearnModel"

\* A ModelCard with its model interface, the run of its saver (self.uris, the
\* writes and conversions in order, how it ended), the sample data blob in
\* storage and the sample data a loader read back.
NoSaver ==
    [interface |-> None, to_onnx |-> FALSE, input |-> NoSample, sample_data |-> NoSample,
     model_metadata_uri |-> FALSE, uris |-> {}, log |-> <<>>, outcome |-> None,
     stored |-> NoArtifact, loaded |-> NoSample]

\* save_artifact_to_storage(artifact, ..., filename)
Write(r, file) == [r EXCEPT !.log = Append(@, <<"write", file>>)]

\* ModelCardArtifactSaver._save_trained_model: the uri is kept in self.uris
\* unless the model is a HuggingFaceModel.
_save_trained_model(r) ==
    IF r.outcome # "running" THEN r
    ELSE LET w == Write(r, "trained_model")
         IN IF r.interface # HuggingFaceModel
            THEN [w EXCEPT !.uris = @ \cup {"trained_model"}]
            ELSE w

\* ModelCardArtifactSaver._save_sample_data
_save_sample_data(r) ==
    IF r.outcome # "running" THEN r
    ELSE [Write(r, "sample_data") EXCEPT !.uris = @ \cup {"sample_data"}]

\* ModelCardArtifactSaver._create_metadata: without to_onnx, and for a
\* HuggingFaceModel, nothing is converted here; otherwise the model is
\* converted and the onnx model written.
_create_metadata(r) ==
    IF r.outcome # "running" THEN r
    ELSE IF ~r.to_onnx THEN r
    ELSE IF r.interface = HuggingFaceModel THEN r
    ELSE [Write([r EXCEPT !.log = Append(@, <<"convert", "trained_model">>)], "onnx_model")
             EXCEPT !.uris = @ \cup {"onnx_model"}]

\* ModelCardArtifactSaver._get_model_metadata: model_uri =
\* self.uris[TRAINED_MODEL_URI], a KeyError when the key is absent.
_get_model_metadata(r) ==
    IF r.outcome # "running" THEN r
    ELSE IF "trained_model" \in r.uris
    THEN [r EXCEPT !.log = Append(@, <<"metadata", "trained_model">>)]
    ELSE [r EXCEPT !.outcome = "KeyError"]

\* ModelCardArtifactSaver._save_model_metadata
_save_model_metadata(r) ==
    LET built == _get_model_metadata(_create_metadata(_save_sample_data(_save_trained_model(r))))
    IN IF built.outcome # "running" THEN built
       ELSE [Write(built, "model_metadata") EXCEPT !.uris = @ \cup {"model_metadata"}]

\* ModelCardArtifactSaver._save_modelcard
_save_modelcard(r) ==
    IF r.outcome # "running" THEN r
    ELSE [Write(r, "modelcard") EXCEPT !.uris = @ \cup {"modelcard"}]

\* ModelCardArtifactSaver.save_artifacts, on a new saver (self.uris = {})
\* (variant: the model metadata is saved whether or not its uri is set)
MutSaveAlways(c) ==
    _save_modelcard(_save_model_metadata(
        [c EXCEPT !.uris = {}, !.log = <<>>, !.outcome = "running"]))

ModelCardArtifactSaver(c) ==
    LET r == [c EXCEPT !.uris = {}, !.log = <<>>, !.outcome = "running"]
    IN IF ~r.model_metadata_uri THEN _save_modelcard(_save_model_metadata(r))
       ELSE _save_modelcard(r)

\* ------------------------------------------------------------ upload route
\* No request yet (response 0: none).  A request has its Filename and
\* WritePath headers (or lacks them), a multipart body of total chunks that
\* carries the part "file" or does not, and possibly a body or a file over
\* the size limit.
NoUpload ==
    [pc |-> "idle", Filename |-> FALSE, WritePath |-> FALSE, has_file |-> FALSE,
     oversize |-> None, total |-> 0, received |-> 0, multipart_filename |-> FALSE,
     written |-> 0, disconnected |-> FALSE, response |-> 0]

\* The statement after the try block of upload_file: 422 without a file
\* part, else the success response {"storage_uri": ...}.
Respond(u) ==
    IF ~u.multipart_filename THEN [u EXCEPT !.pc = "done", !.response = 422]
    ELSE [u EXCEPT !.pc = "done", !.response = 200]

Init ==
    /\ table \in RegistryTableNames
    /\ store = <<>>
    /\ blobs = {}
    /\ storage_spec = NoSpec
    /\ nextUid = 0
    /\ calls = 0
    /\ card = [p \in Procs |-> NoCard]
    /\ call = [p \in Procs |-> NoCall]
    /\ status = [p \in Procs |-> "idle"]
    /\ err = [p \in Procs |-> None]
    /\ listing = NoListing
    /\ saver = NoSaver
    /\ upload = NoUpload
    /\ loader = NoLoader

\* p's call goes on to its next step with c as its call record.
AdvanceWith(p, c) ==
    /\ err' = err
    /\ IF c.pc = Len(Steps(c.op))
       THEN /\ status' = [status EXCEPT ![p] = "returned"]
            /\ call' = [call EXCEPT ![p] = [NoCall EXCEPT !.op = c.op]]
       ELSE /\ call' = [call EXCEPT ![p] = [c EXCEPT !.pc = c.pc + 1]]
            /\ status' = status

\* p's call goes on to its next step, or returns after the last one.
Advance(p) == AdvanceWith(p, call[p])

\* p's call raises e.
Raise(p, e) ==
    /\ status' = [status EXCEPT ![p] = "raised"]
    /\ err' = [err EXCEPT ![p] = e]
    /\ call' = [call EXCEPT ![p] = [NoCall EXCEPT !.op = call[p].op]]

\* A client calls method o of the registry: the call is at its first step.
\* The arguments version_type and save_path of register_card are drawn where
\* the call first reads them, and kept in call[p] from there on.
Begin(p, o) ==
    /\ status[p] # "running"
    /\ calls < MaxCalls
    /\ calls' = calls + 1
    /\ call' = [call EXCEPT ![p] = [NoCall EXCEPT !.op = o, !.pc = 1]]
    /\ status' = [status EXCEPT ![p] = "running"]
    /\ err' = [err EXCEPT ![p] = None]
    /\ UNCHANGED <<upload, saver, listing, loader, table, store, blobs, storage_spec, nextUid>>

\* A client constructs a card and calls register_card on it.
CallRegisterNew(p) ==
    \E cls \in CardClasses, name \in Names, team \in Teams :
        /\ Begin(p, "register_card")
        /\ card' = [card EXCEPT ![p] = NewCard(cls, name, team)]

\* A client calls register_card again on the card it holds.
CallRegisterSame(p) ==
    /\ card[p] # NoCard
    /\ Begin(p, "register_card")
    /\ card' = card

\* ArtifactCard is a mutable object (Config.validate_assignment = False): the
\* caller may have assigned its version field before it passes the card on.
AssignedVersions == {<<2, 0, 0, 0>>}

CardArgs(c) ==
    {c} \cup (IF c.version = NoVersion THEN {}
              ELSE {[c EXCEPT !.version = v] : v \in AssignedVersions})

\* A client calls update_card on the card it holds.
CallUpdate(p) ==
    /\ card[p] # NoCard
    /\ Begin(p, "update_card")
    /\ \E c \in CardArgs(card[p]) : card' = [card EXCEPT ![p] = c]

\* SQLRegistryBase._validate_card_type
ValidateCardType(p) ==
    /\ CurStep(p) = "_validate_card_type"
    /\ IF ~_is_correct_card_type(table, card[p].cls)
       THEN Raise(p, "TypeMismatch")
       ELSE IF check_uid(store, card[p].uid)
       THEN Raise(p, "DuplicateRegistration")
       ELSE Advance(p)
    /\ UNCHANGED <<upload, saver, listing, loader, table, store, blobs, storage_spec, nextUid, calls, card>>

\* SQLRegistryBase._set_card_uid_version, lines 190-191: a uid is generated
\* (uuid4: one never handed out before) only if the card has none.
NewUid(c, fresh) == IF c.uid = NoUid THEN fresh ELSE c.uid

\* SQLRegistryBase._set_card_uid_version with ServerRegistry.set_version
SetCardUidVersion(p) ==
    /\ CurStep(p) = "_set_card_uid_version"
    /\ nextUid < MaxUid
    /\ \E vt \in VersionType :
        LET rows == get_versions(store, card[p].name)
            assign(v) ==
               /\ card' = [card EXCEPT ![p].version = v,
                                       ![p].uid = NewUid(card[p], nextUid + 1)]
               /\ nextUid' = IF NewUid(card[p], nextUid + 1) = nextUid + 1
                             THEN nextUid + 1 ELSE nextUid
               /\ AdvanceWith(p, [call[p] EXCEPT !.version_type = vt])
        IN IF rows = {}
           THEN assign(set_version(<<>>, vt))
           ELSE \E first \in rows :
                  IF OwnershipConflictAt(store, first, card[p].team)
                  THEN /\ Raise(p, "OwnershipConflict")
                       /\ UNCHANGED <<card, nextUid>>
                  ELSE assign(set_version(VersionsOf(store, rows), vt))
    /\ UNCHANGED <<upload, saver, listing, loader, table, store, blobs, storage_spec, calls>>

\* SQLRegistryBase._set_artifact_storage_spec
SetArtifactStorageSpec(p) ==
    /\ CurStep(p) = "_set_artifact_storage_spec"
    /\ \E sp \in {None, "custom"} :
        /\ storage_spec' = IF sp = None
                           THEN <<table, card[p].team, card[p].name, card[p].version>>
                           ELSE Custom
        /\ AdvanceWith(p, [call[p] EXCEPT !.save_path = sp])
    /\ UNCHANGED <<upload, saver, listing, loader, table, store, blobs, nextUid, calls, card>>

\* The blobs of the first k writes of the saver of card c, written under dir.
Written(c, dir, k) ==
    {[dir |-> dir, file |-> SaverWrites(c)[i]] : i \in 1..k}

\* save_card_artifacts returns: the saver has issued every write, in order,
\* and the card holds the URI of every slot.
SaveArtifacts(p) ==
    /\ CurStep(p) = "save_card_artifacts"
    /\ blobs' = blobs \cup Written(card[p], storage_spec, Len(SaverWrites(card[p])))
    /\ card' = [card EXCEPT ![p].uris = Slots(card[p].cls)]
    /\ call' = [call EXCEPT ![p].nsaved = Len(SaverWrites(card[p])),
                            ![p].pc = call[p].pc + 1]
    /\ UNCHANGED <<upload, saver, listing, loader, table, store, storage_spec, nextUid, calls, status, err>>

\* save_card_artifacts raises: write k + 1 fails, after the first k were
\* issued.  The saver's uri map (self.uris) is lost with the saver; only the
\* RunCard saver has assigned to the card by then (card.artifact_uris).
SaveFail(p) ==
    /\ CurStep(p) = "save_card_artifacts"
    /\ \E k \in 0..(Len(SaverWrites(card[p])) - 1) :
          /\ blobs' = blobs \cup Written(card[p], storage_spec, k)
          /\ card' = [card EXCEPT ![p].uris =
                         IF card[p].cls = RunCard /\ k >= 1
                         THEN @ \cup {"artifacts"} ELSE @]
    /\ Raise(p, "ArtifactWriteError")
    /\ UNCHANGED <<upload, saver, listing, loader, table, store, storage_spec, nextUid, calls>>

\* ServerRegistry.add_and_commit: sess.add(row); sess.commit()
AddAndCommit(p) ==
    /\ CurStep(p) = "add_and_commit"
    /\ IF UniqueViolation(store, create_registry_record(card[p]))
       THEN Raise(p, "RecordConflict") /\ store' = store
       ELSE /\ store' = Append(store, create_registry_record(card[p]))
            /\ Advance(p)
    /\ UNCHANGED <<upload, saver, listing, loader, table, blobs, storage_spec, nextUid, calls, card>>

\* ServerRegistry.update_card_record: query.filter(uid == record_uid).update(card)
\* (variant: the row is inserted)
MutUpdateInsert(st, rec) == Append(st, rec)

\* (variant: a uid without a row is inserted)
MutUpdateUpsert(st, rec) ==
    IF \E i \in 1..Len(st) : st[i].uid = rec.uid
    THEN [i \in 1..Len(st) |-> IF st[i].uid = rec.uid THEN rec ELSE st[i]]
    ELSE IF rec.uid = NoUid THEN st
    ELSE Append(st, rec)

update_card_record(st, rec) ==
    [i \in 1..Len(st) |-> IF st[i].uid = rec.uid THEN rec ELSE st[i]]

UpdateCardRecord(p) ==
    /\ CurStep(p) = "update_card_record"
    /\ LET rec == create_registry_record(card[p])
           others == SelectSeq(store, LAMBDA r : r.uid # rec.uid)
       IN IF check_uid(store, rec.uid) /\ UniqueViolation(others, rec)
          THEN Raise(p, "RecordConflict") /\ store' = store
          ELSE /\ store' = update_card_record(store, rec)
               /\ Advance(p)
    /\ UNCHANGED <<upload, saver, listing, loader, table, blobs, storage_spec, nextUid, calls, card>>

Next ==
    \E p \in Procs :
        \/ CallRegisterNew(p)
        \/ CallRegisterSame(p)
        \/ CallUpdate(p)
        \/ ValidateCardType(p)
        \/ SetCardUidVersion(p)
        \/ SetArtifactStorageSpec(p)
        \/ SaveArtifacts(p)
        \/ SaveFail(p)
        \/ AddAndCommit(p)
        \/ UpdateCardRecord(p)

Spec == Init /\ [][Next]_vars

\* ------------------------------------------------- sequential registrations
\* The same registry with one call at a time: a call begins only when no
\* other call is in progress.
Sequential == Cardinality({p \in Procs : status[p] = "running"}) <= 1

NextSeq == Next /\ Sequential'

SpecSeq == Init /\ [][NextSeq]_vars

\* ------------------------------------------------------- version resolution
\* set_version on an arbitrary history: the table holds up to MaxInitRecords
\* rows (unique uids, unique (name, team, version), any order, release
\* candidates included) and one client registers one card.
Histories ==
    UNION {[1..n -> [name : Names, team : Teams, version : VersionUniverse]] :
           n \in 0..MaxInitRecords}

InitVersion ==
    /\ table \in RegistryTableNames
    /\ \E h \in Histories :
          /\ \A i, j \in 1..Len(h) : h[i] = h[j] => i = j
          /\ store = [i \in 1..Len(h) |->
                        [uid |-> MaxUid + i, name |-> h[i].name, team |-> h[i].team,
                         version |-> h[i].version]]
    /\ blobs = {}
    /\ storage_spec = NoSpec
    /\ nextUid = 0
    /\ calls = MaxCalls - 1
    /\ card = [p \in Procs |-> NoCard]
    /\ call = [p \in Procs |-> NoCall]
    /\ status = [p \in Procs |-> "idle"]
    /\ err = [p \in Procs |-> None]
    /\ listing = NoListing
    /\ saver = NoSaver
    /\ upload = NoUpload
    /\ loader = NoLoader

NextVersion ==
    \E p \in Procs :
        \/ CallRegisterNew(p)
        \/ ValidateCardType(p)
        \/ SetCardUidVersion(p)

SpecVersion == InitVersion /\ [][NextVersion]_vars

\* ------------------------------------------------------ list_cards, load_card
\* The table holds up to MaxListRecords rows (any order, release candidates
\* and a name registered under two teams included) and one read call is made.
QueryVersions ==
    {NoVersionQuery, Exact(V100), Exact(<<1, 1, 0, 1>>), Caret(1), Tilde(1, 1)}

Queries ==
    [uid : {NoUid, MaxUid + 1}, name : {None} \cup Names, team : {None, "t"},
     version : QueryVersions, ignore_release_candidates : BOOLEAN,
     limit : {NoLimit, 1}]

ListHistories ==
    UNION {[1..n -> [name : Names, team : Teams, version : VersionUniverse]] :
           n \in 0..MaxListRecords}

InitList ==
    /\ table = MODEL
    /\ \E h \in ListHistories :
          /\ \A i, j \in 1..Len(h) : h[i] = h[j] => i = j
          /\ store = [i \in 1..Len(h) |->
                        [uid |-> MaxUid + i, name |-> h[i].name, team |-> h[i].team,
                         version |-> h[i].version]]
    /\ blobs = {}
    /\ storage_spec = NoSpec
    /\ nextUid = 0
    /\ calls = MaxCalls - 1
    /\ card = [p \in Procs |-> NoCard]
    /\ call = [p \in Procs |-> NoCall]
    /\ status = [p \in Procs |-> "idle"]
    /\ err = [p \in Procs |-> None]
    /\ listing = NoListing
    /\ saver = NoSaver
    /\ upload = NoUpload
    /\ loader = NoLoader

\* registry.list_cards(uid, name, team, version, ignore_release_candidates)
ListCards ==
    /\ calls < MaxCalls
    /\ calls' = calls + 1
    /\ \E q \in Queries :
          listing' = [op |-> "list_cards", query |-> q, outcome |-> "returned",
                      records |-> list_cards(store, q)]
    /\ UNCHANGED <<upload, saver, table, store, blobs, storage_spec, nextUid, card, call, status, err,
                   loader>>

\* registry.load_card(name, team, version, uid)
LoadCard ==
    /\ calls < MaxCalls
    /\ calls' = calls + 1
    /\ \E q \in {x \in Queries : ~x.ignore_release_candidates /\ x.limit = NoLimit} :
          LET loaded == load_card(_get_sql_records(store, q, 1))
          IN listing' = [op |-> "load_card", query |-> q, outcome |-> loaded.outcome,
                         records |-> loaded.records]
    /\ UNCHANGED <<upload, saver, table, store, blobs, storage_spec, nextUid, card, call, status, err,
                   loader>>

NextList == ListCards \/ LoadCard

SpecList == InitList /\ [][NextList]_vars

\* ------------------------------------------------- register, then load_card
\* One call at a time; a client may also call load_card with the uid, or with
\* the name and team, of the card it holds, whether or not its registration
\* succeeded.
LoadQueries(c) ==
    {[NoQuery EXCEPT !.name = c.name, !.team = c.team]}
        \cup (IF c.uid = NoUid THEN {}
              ELSE {[NoQuery EXCEPT !.uid = c.uid, !.name = c.name, !.team = c.team]})

LoadCardOf(p) ==
    /\ card[p] # NoCard
    /\ status[p] # "running"
    /\ calls < MaxCalls
    /\ calls' = calls + 1
    /\ \E q \in LoadQueries(card[p]) :
          LET loaded == load_card(_get_sql_records(store, q, 1))
          IN listing' = [op |-> "load_card", query |-> q, outcome |-> loaded.outcome,
                         records |-> loaded.records]
    /\ UNCHANGED <<upload, saver, table, store, blobs, storage_spec, nextUid, card, call, status, err,
                   loader>>

NextRead == (Next \/ \E p \in Procs : LoadCardOf(p)) /\ Sequential'

SpecRead == Init /\ [][NextRead]_vars

\* ------------------------------------------------------------- card loaders
\* A loaded DataCard or ModelCard, some of its fields populated, some of its
\* blobs in storage; the loader's methods are called in any order.
LoadFiles(cls) ==
    IF cls = DataCard THEN {"data", "profile"}
    ELSE {"trained_model", "preprocessor", "sample_data", "onnx_model"}

LoadFields(cls) ==
    IF cls = DataCard THEN {"data", "profile"}
    ELSE {"model", "preprocessor", "sample_data", "onnx_model"}

InitLoad ==
    /\ table \in {DATA, MODEL}
    /\ store = <<>>
    /\ storage_spec = LoaderUri
    /\ nextUid = 0
    /\ calls = 0
    /\ card = [p \in Procs |-> NoCard]
    /\ call = [p \in Procs |-> NoCall]
    /\ status = [p \in Procs |-> "idle"]
    /\ err = [p \in Procs |-> None]
    /\ listing = NoListing
    /\ saver = NoSaver
    /\ upload = NoUpload
    /\ \E cls \in {DataCard, ModelCard} :
          /\ _is_correct_card_type(table, cls)
          /\ blobs \in SUBSET {[dir |-> LoaderUri, file |-> f] : f \in LoadFiles(cls)}
          /\ \E fields \in SUBSET LoadFields(cls) :
                loader = [NoLoader EXCEPT !.cls = cls, !.fields = fields]

LoaderCall(cls, method, r) ==
    /\ loader.cls = cls
    /\ loader' = Finish(r)
    /\ UNCHANGED <<upload, saver, table, store, blobs, storage_spec, nextUid, calls, card, call, status,
                   err, listing>>

LoadData == LoaderCall(DataCard, "load_data", load_data(Start("load_data"), blobs))

LoadDataProfile ==
    LoaderCall(DataCard, "load_data_profile",
               load_data_profile(Start("load_data_profile"), blobs))

LoadModel == LoaderCall(ModelCard, "load_model", load_model(Start("load_model"), blobs))

LoadOnnxModel ==
    LoaderCall(ModelCard, "load_onnx_model",
               load_onnx_model(Start("load_onnx_model"), blobs))

NextLoad == LoadData \/ LoadDataProfile \/ LoadModel \/ LoadOnnxModel

SpecLoad == InitLoad /\ [][NextLoad]_vars

\* ------------------------------------------------- ModelCard: save and load
\* A ModelCard is constructed on a model interface and a sample input of up
\* to MaxRows rows, saved (a first time, then again as on update_card) and
\* its sample data loaded.
Cells == {0, 1}

SampleInputs ==
    {[data_type |-> t, data |-> [rows |-> r]] :
        t \in {"numpy", "pandas"}, r \in UNION {[1..n -> Cells] : n \in 1..MaxRows}}
    \cup {[data_type |-> "dict", data |-> d] :
            d \in [{"a", "b"} -> {<<0>>, [i \in 1..MaxRows |-> i % 2]}]}

InitModel ==
    /\ table = MODEL
    /\ store = <<>>
    /\ blobs = {}
    /\ storage_spec = NoSpec
    /\ nextUid = 0
    /\ calls = 0
    /\ card = [p \in Procs |-> NoCard]
    /\ call = [p \in Procs |-> NoCall]
    /\ status = [p \in Procs |-> "idle"]
    /\ err = [p \in Procs |-> None]
    /\ listing = NoListing
    /\ loader = NoLoader
    /\ saver = NoSaver
    /\ upload = NoUpload

\* ModelCard(interface, sample input, to_onnx): the validator keeps one
\* record of the sample input.
NewModelCard ==
    /\ saver.interface = None
    /\ \E interface \in {HuggingFaceModel, SklearnModel}, to_onnx \in BOOLEAN,
          input \in SampleInputs :
          saver' = [NoSaver EXCEPT !.interface = interface, !.to_onnx = to_onnx,
                                   !.input = input,
                                   !.sample_data = _get_one_sample(input)]
    /\ UNCHANGED <<upload, table, store, blobs, storage_spec, nextUid, calls, card, call, status,
                   err, listing, loader>>

\* save_card_artifacts(card): a new saver runs save_artifacts; when it
\* returns, the card takes the uris of the saver.
SaveModelCard ==
    /\ saver.interface # None
    /\ calls < MaxCalls
    /\ calls' = calls + 1
    /\ LET run == ModelCardArtifactSaver(saver)
           wrote(file) == \E k \in 1..Len(run.log) : run.log[k] = <<"write", file>>
       IN saver' =
            [run EXCEPT
               !.outcome = IF @ = "running" THEN "returned" ELSE @,
               !.model_metadata_uri =
                   @ \/ (run.outcome = "running" /\ "model_metadata" \in run.uris),
               !.stored = IF wrote("sample_data")
                          THEN _get_artifact_and_type(run.sample_data) ELSE @]
    /\ UNCHANGED <<upload, table, store, blobs, storage_spec, nextUid, card, call, status, err,
                   listing, loader>>

\* ModelCardLoader._load_sample_data, the blob being in storage
LoadSampleData ==
    /\ saver.stored.artifact_type # None
    /\ saver' = [saver EXCEPT
                    !.loaded = load_sample_data(saver.sample_data.data_type, saver.stored)]
    /\ UNCHANGED <<upload, table, store, blobs, storage_spec, nextUid, calls, card, call, status,
                   err, listing, loader>>

NextModel == NewModelCard \/ SaveModelCard \/ LoadSampleData

SpecModel == InitModel /\ [][NextModel]_vars

\* ------------------------------------------------------------- upload_file
\* One request to the upload route, chunk by chunk.
InitUpload ==
    /\ table = MODEL
    /\ store = <<>>
    /\ blobs = {}
    /\ storage_spec = NoSpec
    /\ nextUid = 0
    /\ calls = 0
    /\ card = [p \in Procs |-> NoCard]
    /\ call = [p \in Procs |-> NoCall]
    /\ status = [p \in Procs |-> "idle"]
    /\ err = [p \in Procs |-> None]
    /\ listing = NoListing
    /\ loader = NoLoader
    /\ saver = NoSaver
    /\ upload = NoUpload

NotUpload ==
    UNCHANGED <<table, store, blobs, storage_spec, nextUid, calls, card, call, status, err,
                listing, loader, saver>>

\* upload_file up to the stream: the headers are read; a missing Filename or
\* WritePath header is answered with 422.
ReadHeaders ==
    /\ upload.pc = "idle"
    /\ \E filename, write_path, has_file \in BOOLEAN, total \in 1..MaxChunks,
          oversize \in {None, "body", "file"} :
          LET u == [NoUpload EXCEPT !.Filename = filename, !.WritePath = write_path,
                                    !.has_file = has_file, !.total = total,
                                    !.oversize = oversize]
          IN upload' = IF ~filename \/ ~write_path
                       THEN [u EXCEPT !.pc = "done", !.response = 422]
                       ELSE [u EXCEPT !.pc = "streaming"]
    /\ NotUpload

\* One turn of "async for chunk in request.stream()": body_validator(chunk),
\* then parser.data_received(chunk), which sets the target's
\* multipart_filename at the start of the part "file" and hands the data to
\* the file target.  The size validators raise on the chunk that passes the
\* limit (413).
ReceiveChunk ==
    /\ upload.pc = "streaming"
    /\ upload.received < upload.total
    /\ LET last == upload.received + 1 = upload.total
       IN upload' =
            IF last /\ upload.oversize = "body"
            THEN [upload EXCEPT !.pc = "done", !.response = 413, !.received = @ + 1]
            ELSE IF last /\ upload.oversize = "file" /\ upload.has_file
            THEN [upload EXCEPT !.pc = "done", !.response = 413, !.received = @ + 1,
                                !.multipart_filename = TRUE]
            ELSE [upload EXCEPT !.received = @ + 1,
                                !.multipart_filename = upload.has_file,
                                !.written = IF upload.has_file THEN @ + 1 ELSE @]
    /\ NotUpload

\* The stream ends: the loop is left and the response is made.
StreamEnd ==
    /\ upload.pc = "streaming"
    /\ upload.received = upload.total
    /\ upload' = Respond(upload)
    /\ NotUpload

\* request.stream() raises ClientDisconnect before the body is complete:
\* the handler logs it and goes on to the statement after the try block.
Disconnect ==
    /\ upload.pc = "streaming"
    /\ upload.received < upload.total
    /\ upload' = Respond([upload EXCEPT !.disconnected = TRUE])
    /\ NotUpload

NextUpload == ReadHeaders \/ ReceiveChunk \/ StreamEnd \/ Disconnect

SpecUpload == InitUpload /\ [][NextUpload]_vars

\* ------------------------------------------------------------------ claims
\* Client p executes step s of its call in this transition.
Stepped(p, s) == CurStep(p) = s /\ <<call[p], status[p]>>' # <<call[p], status[p]>>

\* The saver of p's card has written every artifact of its plan.
SavesComplete(p) ==
    /\ Slots(card[p].cls) # {} => call[p].nsaved >= 1
    /\ Slots(card[p].cls) \subseteq card[p].uris
    /\ \A f \in Slots(card[p].cls) : \E b \in blobs : b.file = f

\* C1: within one register_card call every artifact save of the card has
\* completed before the row is written: a row is added to the store only by
\* the add_and_commit step of a call whose saver has written all its
\* artifacts.
C1_SavesBeforeRecord ==
    [][/\ \A p \in Procs : Stepped(p, "add_and_commit") => SavesComplete(p)
       /\ Len(store') > Len(store) =>
             \E p \in Procs : Stepped(p, "add_and_commit") /\ SavesComplete(p)]_vars

\* A registration with artifacts went through: the row is in the store.
C1_Witness ==
    \E p \in Procs :
        /\ status[p] = "returned"
        /\ call[p].op = "register_card"
        /\ check_uid(store, card[p].uid)
        /\ Len(save_artifacts(card[p].cls)) >= 4
        /\ \A f \in Slots(card[p].cls) :
              [dir |-> <<table, card[p].team, card[p].name, card[p].version>>,
               file |-> f] \in blobs

\* C2 as stated: after a register_card that raised in the artifact saves or
\* in any earlier step (validation, version resolution), the store holds no
\* row with the card's uid.
C2_Original ==
    \A p \in Procs :
        (status[p] = "raised" /\ call[p].op = "register_card"
            /\ err[p] \in {"TypeMismatch", "DuplicateRegistration",
                           "OwnershipConflict", "ArtifactWriteError"})
        => ~check_uid(store, card[p].uid)

\* C2 amended: a register_card that raises writes no row (the store is as it
\* was before the raising step, and no step of the call before it wrote),
\* and the store holds no row with the card's uid unless the call was
\* rejected because that uid is registered already.
C2_NoRecordAfterFailure ==
    /\ [](\A p \in Procs :
            (status[p] = "raised" /\ call[p].op = "register_card"
                /\ err[p] # "DuplicateRegistration")
            => ~check_uid(store, card[p].uid))
    /\ [][\A p \in Procs :
            (call[p].op = "register_card" /\ status[p] = "running"
                /\ status'[p] = "raised")
            => store' = store]_vars

\* The artifact saves of a registration raised part-way.
C2_Witness ==
    \E p \in Procs :
        /\ status[p] = "raised"
        /\ call[p].op = "register_card"
        /\ err[p] = "ArtifactWriteError"
        /\ card[p].uid # NoUid
        /\ \E b \in blobs : b.dir = <<table, card[p].team, card[p].name, card[p].version>>

C4_DuplicateRejectedFirst ==
    [][\A p \in Procs :
        (call[p].op = "register_card" /\ check_uid(store, card[p].uid)) =>
            /\ Stepped(p, "_validate_card_type") =>
                  /\ status'[p] = "raised"
                  /\ err'[p] = "DuplicateRegistration"
                  /\ UNCHANGED <<card, store, blobs, storage_spec, nextUid>>
            /\ \A s \in {"_set_card_uid_version", "_set_artifact_storage_spec",
                         "save_card_artifacts", "add_and_commit"} : ~Stepped(p, s)]_vars

\* A registered card was registered again and rejected.
C4_Witness ==
    \E p \in Procs :
        /\ status[p] = "raised"
        /\ err[p] = "DuplicateRegistration"
        /\ check_uid(store, card[p].uid)
        /\ blobs # {}

\* The table each card class belongs to.
TableOf(cls) ==
    IF cls = DataCard THEN DATA
    ELSE IF cls = ModelCard THEN MODEL
    ELSE IF cls = RunCard THEN RUN
    ELSE IF cls = PipelineCard THEN PIPELINE
    ELSE <<>>

\* C5: register_card on a card whose class is not the table's raises
\* TypeMismatch in its first step, for every class and table: nothing is
\* assigned to the card, nothing saved, nothing written, and no later step
\* of the call runs.
C5_TypeMismatchFirst ==
    [][\A p \in Procs :
        (call[p].op = "register_card" /\ status[p] = "running"
            /\ TableOf(card[p].cls) # table) =>
            /\ CurStep(p) = "_validate_card_type"
            /\ Stepped(p, "_validate_card_type") =>
                  /\ status'[p] = "raised"
                  /\ err'[p] = "TypeMismatch"
                  /\ UNCHANGED <<card, store, blobs, storage_spec, nextUid>>]_vars

\* A card of another class was rejected by a registry that holds rows.
C5_Witness ==
    \E p \in Procs :
        /\ status[p] = "raised"
        /\ err[p] = "TypeMismatch"
        /\ card[p].uid = NoUid
        /\ card[p].version = NoVersion
        /\ store # <<>>

\* The versions stored for (name, team).
VersionsFor(st, name, team) ==
    {st[i].version : i \in {j \in 1..Len(st) : st[j].name = name /\ st[j].team = team}}

\* C6: when versions are stored for the card's (name, team), the version
\* set_version returns is strictly greater than each of them, for every
\* version_type and every order of the rows.
C6_NextVersionAboveMax ==
    [][\A p \in Procs :
        (/\ Stepped(p, "_set_card_uid_version")
         /\ status'[p] # "raised"
         /\ VersionsFor(store, card[p].name, card[p].team) # {}) =>
            \A v \in VersionsFor(store, card[p].name, card[p].team) :
                SemverLess(v, card'[p].version)]_vars

\* A version was resolved over two rows that the table holds in ascending
\* order, the lower one first.
C6_Witness ==
    \E p \in Procs :
        /\ status[p] = "running"
        /\ call[p].pc = 3
        /\ Len(store) = 2
        /\ store[1].team = card[p].team
        /\ store[2].team = card[p].team
        /\ SemverLess(store[1].version, store[2].version)
        /\ SemverLess(store[2].version, card[p].version)

\* C7 as stated: when no version is stored for the card's (name, team),
\* set_version returns "1.0.0".
C7_Original ==
    [][\A p \in Procs :
        (/\ Stepped(p, "_set_card_uid_version")
         /\ VersionsFor(store, card[p].name, card[p].team) = {}) =>
            /\ status'[p] # "raised"
            /\ card'[p].version = V100]_vars

\* C7 amended: when no row with the card's name is stored, set_version
\* returns "1.0.0" for every version_type; when rows with that name are
\* stored, all of another team, it raises OwnershipConflict and assigns no
\* version.
C7_BaseVersion ==
    [][\A p \in Procs :
        (/\ Stepped(p, "_set_card_uid_version")
         /\ VersionsFor(store, card[p].name, card[p].team) = {}) =>
            IF get_versions(store, card[p].name) = {}
            THEN /\ status'[p] # "raised"
                 /\ card'[p].version = V100
                 /\ call'[p].version_type \in VersionType
            ELSE /\ status'[p] = "raised"
                 /\ err'[p] = "OwnershipConflict"
                 /\ card'[p].version = card[p].version]_vars

\* A first version was resolved with version_type PATCH.
C7_Witness ==
    \E p \in Procs :
        /\ store = <<>>
        /\ status[p] = "running"
        /\ call[p].pc = 3
        /\ call[p].version_type = "patch"
        /\ card[p].version = V100

\* C8: sequential registrations append: the first one in an empty table gets
\* "1.0.0" and a uid, a MINOR one after it for the same name and team gets
\* "1.1.0", every registration gets a version above all those stored for its
\* (name, team), and no step of a register_card changes or removes a row.
C8_AppendOnlyVersions ==
    [][\A p \in Procs :
        /\ (call[p].op = "register_card" /\ status[p] = "running") =>
              (\/ store' = store
               \/ /\ Stepped(p, "add_and_commit")
                  /\ store' = Append(store, create_registry_record(card[p])))
        /\ (Stepped(p, "add_and_commit") /\ Len(store') > Len(store)) =>
              LET r == store'[Len(store')]
              IN /\ r.uid # NoUid
                 /\ ~check_uid(store, r.uid)
                 /\ \A v \in VersionsFor(store, r.name, r.team) : SemverLess(v, r.version)
                 /\ store = <<>> => r.version = V100
                 /\ (/\ Len(store) = 1
                     /\ VersionsFor(store, r.name, r.team) = {V100}
                     /\ call[p].version_type = "minor") => r.version = <<1, 1, 0, 0>>]_vars

\* Two cards of a name and team registered one after the other: 1.0.0, 1.1.0.
C8_Witness ==
    /\ Len(store) = 2
    /\ store[1].name = store[2].name
    /\ store[1].team = store[2].team
    /\ store[1].uid # store[2].uid
    /\ store[1].version = V100
    /\ store[2].version = <<1, 1, 0, 0>>

\* C9 as stated: resolving a version for (name, team) raises
\* OwnershipConflict, and assigns no version, whenever the table holds a row
\* with that name and another team.
C9_OwnershipAlwaysEnforced ==
    [][\A p \in Procs :
        (/\ Stepped(p, "_set_card_uid_version")
         /\ \E i \in 1..Len(store) :
               store[i].name = card[p].name /\ store[i].team # card[p].team) =>
            /\ status'[p] = "raised"
            /\ err'[p] = "OwnershipConflict"
            /\ card'[p].version = card[p].version]_vars

\* C10: a uid in the store keeps its row's (name, team, version) in every
\* later state, under any interleaving of register_card and update_card; and
\* register_card generates a uid only for a card that has none.
C10_UidTripleStable ==
    [][/\ \A i \in 1..Len(store) :
            /\ \E j \in 1..Len(store') : store'[j].uid = store[i].uid
            /\ \A j \in 1..Len(store') :
                  store'[j].uid = store[i].uid =>
                      /\ store'[j].name = store[i].name
                      /\ store'[j].team = store[i].team
                      /\ store'[j].version = store[i].version
       /\ \A p \in Procs :
            (Stepped(p, "_set_card_uid_version") /\ status'[p] # "raised") =>
                IF card[p].uid # NoUid
                THEN card'[p].uid = card[p].uid
                ELSE card'[p].uid # NoUid /\ card'[p].uid > nextUid]_vars

\* C11: a card with a uid and a version holds the URI of every artifact its
\* saver writes, in every state register_card goes through, the states
\* after a register_card that raised part-way included.
C11_UrisWithUidVersion ==
    \A p \in Procs :
        (card[p].uid # NoUid /\ card[p].version # NoVersion)
        => Slots(card[p].cls) \subseteq card[p].uris

\* C12: update_card resolves no version and writes by an update on the
\* card's uid: no step of the call changes the card's version or uid or the
\* number of rows, and no row with another uid is changed.
C12_UpdateKeyedByUid ==
    [][\A p \in Procs :
        (call[p].op = "update_card" /\ status[p] = "running"
            /\ <<call[p], status[p]>>' # <<call[p], status[p]>>) =>
            /\ card'[p].version = card[p].version
            /\ card'[p].uid = card[p].uid
            /\ Len(store') = Len(store)
            /\ \A i \in 1..Len(store) :
                  store[i].uid # card[p].uid => store'[i] = store[i]]_vars

\* A registered card was updated next to another card's row.
C12_Witness ==
    \E p \in Procs :
        /\ status[p] = "returned"
        /\ call[p].op = "update_card"
        /\ check_uid(store, card[p].uid)
        /\ Len(store) >= 2
        /\ \E i \in 1..Len(store) : store[i].uid # card[p].uid

\* C18: save_artifacts on a card whose URIs are all set and whose payload is
\* unchanged issues no write to a slot whose URI is set, and leaves the
\* card's URIs as they are (so that a second call returns the same uri map).
C18_SaverIdempotent ==
    [][\A p \in Procs :
        (/\ Stepped(p, "save_card_artifacts")
         /\ status'[p] # "raised"
         /\ Slots(card[p].cls) # {}
         /\ Slots(card[p].cls) \subseteq card[p].uris) =>
            /\ call'[p].nsaved = 0
            /\ card'[p].uris = card[p].uris]_vars

\* The rows of the table a call's filters select (a uid alone decides).
Selected(q) ==
    {i \in 1..Len(store) :
        IF q.uid # NoUid THEN store[i].uid = q.uid
        ELSE /\ q.name \in {None, store[i].name}
             /\ q.team \in {None, store[i].team}
             /\ \/ q.version.symbol = None
                \/ q.version.symbol = "" /\ store[i].version = q.version.version
                \/ q.version.symbol = "^" /\ store[i].version[1] = q.version.version[1]
                \/ /\ q.version.symbol = "~"
                   /\ store[i].version[1] = q.version.version[1]
                   /\ store[i].version[2] = q.version.version[2]}

\* records is sorted by version, highest first.
Descending(records) ==
    \A i, j \in 1..Len(records) :
        i < j => ~SemverLess(records[i].version, records[j].version)

\* C13: load_card raises NotFoundError when no row matches the filter; it
\* returns no card then.
C13_LoadCardNotFound ==
    (listing.op = "load_card" /\ Selected(listing.query) = {}) =>
        /\ listing.outcome = "NotFoundError"
        /\ listing.records = <<>>

\* load_card with a filter that matches none of the rows of the table.
C13_Witness ==
    /\ listing.op = "load_card"
    /\ Len(store) >= 2
    /\ listing.query.name # None
    /\ Selected(listing.query) = {}
    /\ listing.outcome = "NotFoundError"

C15_ListSortedDescending ==
    (listing.op = "list_cards" /\ listing.query.name # None) =>
        /\ Descending(listing.records)
        /\ \A k \in 1..Len(listing.records) :
              \E i \in Selected(listing.query) : store[i] = listing.records[k]
        /\ (listing.query.version.symbol \in {None, ""}
              /\ listing.query.limit = NoLimit
              /\ ~listing.query.ignore_release_candidates) =>
              \A i \in Selected(listing.query) :
                  \E k \in 1..Len(listing.records) : listing.records[k] = store[i]

\* Three rows of a name, inserted lowest first, listed highest first.
C15_Witness ==
    /\ listing.op = "list_cards"
    /\ listing.query.name # None
    /\ listing.query.version.symbol = None
    /\ Len(store) = 3
    /\ SemverLess(store[1].version, store[2].version)
    /\ SemverLess(store[2].version, store[3].version)
    /\ listing.records = <<store[3], store[2], store[1]>>

\* list_cards returned at most one row, the highest-versioned of the rows
\* the query selects.
TopMatchOnly ==
    /\ Len(listing.records) <= 1
    /\ Selected(listing.query) # {} =>
          /\ Len(listing.records) = 1
          /\ \E i \in Selected(listing.query) : store[i] = listing.records[1]
          /\ \A i \in Selected(listing.query) :
                ~SemverLess(listing.records[1].version, store[i].version)

C17_ReleaseCandidates ==
    listing.op = "list_cards" =>
        /\ listing.query.ignore_release_candidates =>
              \A k \in 1..Len(listing.records) : listing.records[k].version[4] = 0
        /\ (/\ ~listing.query.ignore_release_candidates
            /\ listing.query.name # None
            /\ listing.query.uid = NoUid
            /\ listing.query.version.symbol = None) =>
              \A k, l \in 1..Len(listing.records) :
                  (/\ listing.records[k].version[4] # 0
                   /\ listing.records[l].version[4] = 0
                   /\ SubSeq(listing.records[k].version, 1, 3)
                         = SubSeq(listing.records[l].version, 1, 3)) => l < k

\* 1.1.0-rc.1 was inserted after 1.1.0 and before 1.0.0: it is dropped with
\* the flag.
C17_Witness ==
    /\ listing.op = "list_cards"
    /\ listing.query.ignore_release_candidates
    /\ listing.query.version.symbol = None
    /\ listing.query.name # None
    /\ listing.query.team = None
    /\ listing.query.uid = NoUid
    /\ Len(store) = 3
    /\ store[1].version = <<1, 1, 0, 1>>
    /\ store[2].version = <<1, 1, 0, 0>>
    /\ listing.records = <<store[2], store[3]>>

\* The in-memory field each load method targets.
Target(method) ==
    IF method = "load_data" THEN "data"
    ELSE IF method = "load_data_profile" THEN "profile"
    ELSE IF method = "load_model" THEN "model"
    ELSE "onnx_model"

\* C19: each load method (load_data, load_data_profile, load_model,
\* load_onnx_model) called on a card whose target field is populated makes
\* no existence check and no download and leaves the card as it is.
C19_LoadIdempotent ==
    [][\A method \in {"load_data", "load_data_profile", "load_model", "load_onnx_model"} :
        (loader'.method = method /\ Target(method) \in loader.fields) =>
            /\ loader'.ops = <<>>
            /\ loader'.fields = loader.fields
            /\ loader'.outcome = "returned"]_vars

\* C20: load_model on a card whose model field is empty and whose trained
\* model blob is not in storage raises CorruptRecordError.
C20_MissingModelIsCorrupt ==
    (/\ loader.method = "load_model"
     /\ "model" \notin loader.fields
     /\ ~Stored(blobs, "trained_model")) => loader.outcome = "CorruptRecordError"

\* C27: _sort_by_version returns a permutation of its input: a listing of a
\* name (no version argument, release candidates kept) holds every selected
\* row exactly once, also when rows share a version.
C27_SortIsPermutation ==
    (/\ listing.op = "list_cards"
     /\ listing.query.name # None
     /\ listing.query.version.symbol = None
     /\ listing.query.limit = NoLimit
     /\ ~listing.query.ignore_release_candidates) =>
        /\ Len(listing.records) = Cardinality(Selected(listing.query))
        /\ \A i \in Selected(listing.query) :
              Cardinality({k \in 1..Len(listing.records) : listing.records[k] = store[i]}) = 1

\* C28: list_cards(name, limit=1, ignore_release_candidates=True) returns
\* exactly the highest final release among the rows the filter selects
\* whenever one of them is a final release, and never an empty list then.
C28_LimitHighestRelease ==
    (/\ listing.op = "list_cards"
     /\ listing.query.name # None
     /\ listing.query.uid = NoUid
     /\ listing.query.limit = 1
     /\ listing.query.ignore_release_candidates
     /\ \E i \in Selected(listing.query) : ~is_release_candidate(store[i].version)) =>
        /\ Len(listing.records) = 1
        /\ \E i \in Selected(listing.query) : store[i] = listing.records[1]
        /\ ~is_release_candidate(listing.records[1].version)
        /\ \A i \in Selected(listing.query) :
              ~is_release_candidate(store[i].version) =>
                  ~SemverLess(listing.records[1].version, store[i].version)

\* C29: update_card on a card whose uid has no row in the store never
\* creates a row: when the call reaches update_card_record its artifacts are
\* saved, the update leaves the store as it is and the call returns without
\* raising.
C29_UpdateUnknownUid ==
    [][\A p \in Procs :
        (/\ Stepped(p, "update_card_record")
         /\ card[p].uid # NoUid
         /\ ~check_uid(store, card[p].uid)) =>
            /\ SavesComplete(p)
            /\ store' = store
            /\ status'[p] = "returned"
            /\ err'[p] = None]_vars

\* A card whose registration failed after its uid was assigned is updated:
\* the call returned and the store holds no row of the card.
C29_Witness ==
    \E p \in Procs :
        /\ status[p] = "returned"
        /\ call[p].op = "update_card"
        /\ card[p].uid # NoUid
        /\ ~check_uid(store, card[p].uid)
        /\ store # <<>>
        /\ \E b \in blobs : b.file \in Slots(card[p].cls)

\* C21: once register_card(card) has returned, load_card with the card's uid
\* returns a card of that uid, and load_card with the card's name and team
\* returns a card whose uid is set.
C21_RegisterThenLoad ==
    [][\A p \in Procs :
        (/\ status[p] = "returned"
         /\ call[p].op = "register_card"
         /\ listing' # listing
         /\ \/ listing'.query.uid = card[p].uid
            \/ /\ listing'.query.uid = NoUid
               /\ listing'.query.name = card[p].name
               /\ listing'.query.team = card[p].team) =>
            /\ listing'.outcome = "returned"
            /\ Len(listing'.records) = 1
            /\ listing'.records[1].uid # NoUid
            /\ listing'.query.uid = card[p].uid =>
                  listing'.records[1].uid = card[p].uid]_vars

\* A card is registered while the store holds another row, then loaded by
\* its uid.
C21_Witness ==
    \E p \in Procs :
        /\ status[p] = "returned"
        /\ call[p].op = "register_card"
        /\ Len(store) = 2
        /\ listing.op = "load_card"
        /\ listing.query.uid = card[p].uid
        /\ listing.records = <<store[2]>>
        /\ store[2].uid = card[p].uid

\* The number of records of a sample: its rows, or the elements of each
\* keyed array.
OneRecord(sample, input) ==
    IF sample.data_type = "dict"
    THEN \A key \in DOMAIN input.data :
            sample.data[key] = <<input.data[key][1]>>
    ELSE sample.data.rows = <<input.data.rows[1]>>

\* C22: the sample input stored on a ModelCard is exactly one record, the
\* first row (the first element of each keyed array) of the input, whatever
\* the number of rows of the input; and the sample data loaded after a save
\* is that one record.
C22_OneSample ==
    /\ saver.interface # None =>
          /\ saver.sample_data.data_type = saver.input.data_type
          /\ OneRecord(saver.sample_data, saver.input)
    /\ saver.loaded.data_type # None =>
          /\ saver.loaded.data_type = saver.input.data_type
          /\ OneRecord(saver.loaded, saver.input)

\* A frame of MaxRows rows was given; one row was saved and loaded.
C22_Witness ==
    /\ saver.input.data_type = "pandas"
    /\ Len(saver.input.data.rows) = MaxRows
    /\ saver.loaded.data_type = "pandas"
    /\ Len(saver.loaded.data.rows) = 1

\* The position of an event in the log of a saver run, 0 if it is absent.
At(log, event) ==
    IF \E k \in 1..Len(log) : log[k] = event
    THEN CHOOSE k \in 1..Len(log) : log[k] = event
    ELSE 0

\* C23: save_artifacts of a ModelCard without model_metadata_uri, for every
\* model interface: the trained model is written first, before the sample
\* data, the onnx model and the metadata JSON; the metadata JSON is built
\* from the uri of the trained model saved before it and is written; the
\* card's own blob is written last.
C23_OrderSafe ==
    [][(saver.interface # None /\ ~saver.model_metadata_uri /\ calls' # calls) =>
        LET log == saver'.log
        IN /\ saver'.outcome = "returned"
           /\ At(log, <<"write", "trained_model">>) = 1
           /\ At(log, <<"write", "sample_data">>) > 1
           /\ At(log, <<"metadata", "trained_model">>) > 1
           /\ At(log, <<"write", "model_metadata">>) > At(log, <<"metadata", "trained_model">>)
           /\ At(log, <<"write", "onnx_model">>) # 0 =>
                 /\ At(log, <<"convert", "trained_model">>) > 1
                 /\ At(log, <<"write", "onnx_model">>) > At(log, <<"convert", "trained_model">>)
           /\ At(log, <<"write", "modelcard">>) = Len(log)]_vars

\* C24: save_artifacts of a ModelCard whose model_metadata_uri is set runs
\* no conversion and writes neither the trained model, the sample data, the
\* onnx model nor the metadata JSON: it writes the card's own blob only.
C24_SkipWhenMetadataSaved ==
    [][(saver.model_metadata_uri /\ calls' # calls) =>
        /\ saver'.log = << <<"write", "modelcard">> >>
        /\ saver'.outcome = "returned"
        /\ saver'.stored = saver.stored]_vars

\* A ModelCard with onnx conversion saved a second time.
C24_Witness ==
    /\ saver.model_metadata_uri
    /\ saver.to_onnx
    /\ calls = 2
    /\ saver.log = << <<"write", "modelcard">> >>

\* The optional artifacts a load method reads (blob and in-memory field
\* have the same name).
Optional(method) ==
    IF method = "load_data_profile" THEN {"profile"}
    ELSE IF method = "load_model" THEN {"preprocessor", "sample_data"}
    ELSE IF method = "load_onnx_model" THEN {"onnx_model"}
    ELSE {}

\* C25: for an optional artifact (data profile, preprocessor, sample data,
\* onnx model) the loader downloads only after an existence check of that
\* blob; when the blob is absent it makes no download of it, leaves the
\* field as it is and raises nothing on its account.
C25_OptionalSkippedWhenAbsent ==
    [][\A file \in Optional(loader'.method) :
        LET ops == loader'.ops
        IN /\ \A k \in 1..Len(ops) :
                 ops[k] = <<"get", file>> => k > 1 /\ ops[k - 1] = <<"exists", file>>
           /\ ~Stored(blobs, file) =>
                 /\ \A k \in 1..Len(ops) : ops[k] # <<"get", file>>
                 /\ file \in loader'.fields <=> file \in loader.fields
                 /\ \/ loader'.outcome = "returned"
                    \/ /\ ~Stored(blobs, "trained_model")
                       /\ ops[Len(ops)] = <<"get", "trained_model">>]_vars

\* load_model on a card whose preprocessor blob is absent: the check was
\* made, nothing was downloaded for it, the call returned.
C25_Witness ==
    /\ loader.method = "load_model"
    /\ ~Stored(blobs, "preprocessor")
    /\ Stored(blobs, "sample_data")
    /\ "sample_data" \in loader.fields
    /\ "preprocessor" \notin loader.fields
    /\ \E k \in 1..Len(loader.ops) : loader.ops[k] = <<"exists", "preprocessor">>
    /\ loader.outcome = "returned"

\* The save directories of the card of client p: the default one of its
\* table, team, name and version, and the caller's override.
OwnDirs(p) == {<<table, card[p].team, card[p].name, card[p].version>>, Custom}

C30_UploadComplete ==
    /\ upload.response = 200 =>
          /\ ~upload.disconnected
          /\ upload.received = upload.total
          /\ upload.written = upload.total
    /\ (upload.pc # "idle" /\ (~upload.Filename \/ ~upload.WritePath)) =>
          /\ upload.response = 422
          /\ upload.written = 0

====
